---- MODULE Spec2Model ----
(***************************************************************************)
(* A state-machine model of profile.py, the POWDER over-the-air srsLTE     *)
(* profile script.  The script runs once, top to bottom; every statement   *)
(* group of the module body is one action and pc is the position in the    *)
(* script.                                                                 *)
(*                                                                         *)
(* Numbers.  Frequencies and bandwidths are Python numbers in MHz; the     *)
(* model holds them as integers in hundredths of a MHz (2685.0 MHz is      *)
(* 268500).  A Python number that the arithmetic distinguishes by type     *)
(* (the bandwidth column of the table) is a record [int, v]: int says the  *)
(* literal is a Python int, v is its value in hundredths.  Amplitude and   *)
(* gain are held in hundredths as well (0.5 is 50, 0.20 is 20).            *)
(*                                                                         *)
(* Interpreter.  The script starts with #!/usr/bin/python and imports      *)
(* nothing from __future__, so the meaning of `/` on two ints and of       *)
(* round() on a tie is the interpreter's: py is 2 or 3 and is chosen by    *)
(* the environment.                                                        *)
(***************************************************************************)
EXTENDS Integers, Sequences, FiniteSets, TLC

VARIABLES
    pc,                      \* position in the script
    py,                      \* major version of the interpreter running it
    error,                   \* the exception that ended the run, or "none"
    parameters,              \* what defineParameter declared for channel_bandwidth
    params,                  \* the bound parameters (bindParameters)
    request,                 \* the request RSpec: spectrum and resources
    installs,                \* the install list
    downlink_frequency,      \* hundredths of a MHz
    centi_khz,
    earfcn,
    n_prb, bandwidth, ul_amp, dl_gain,
    low_downlink_frequency, high_downlink_frequency,
    low_uplink_frequency, high_uplink_frequency,
    i,                       \* index of the X310 loop
    j,                       \* index of the B210 loop
    printed                  \* number of times the request was printed

vars == <<pc, py, error, parameters, params, request, installs,
          downlink_frequency, centi_khz, earfcn, n_prb, bandwidth, ul_amp,
          dl_gain, low_downlink_frequency, high_downlink_frequency,
          low_uplink_frequency, high_uplink_frequency, i, j, printed>>

(***************************************************************************)
(* Bounds of the model.                                                    *)
(***************************************************************************)
\* longest list of X310 radios bound to params.x310_radios
MaxRadios == 2
\* longest list of B210 nodes bound to params.b210_nodes
MaxNodes == 2
\* downlink frequencies are tried up to EdgeSpan steps of 0.05 MHz on each
\* side of both band edges
EdgeSpan == 2

(***************************************************************************)
(* Constants of the script.                                                *)
(***************************************************************************)
x310_node_disk_image == "urn:publicid:IDN+emulab.net+image+emulab-ops//UBUNTU18-64-STD"
b210_node_disk_image == "urn:publicid:IDN+emulab.net+image+emulab-ops//UBUNTU18-64-STD"
setup_command == "/local/repository/startup.sh"

\* the rooftop radios the model binds (two of the eight offered)
rooftop_names == {"cellsdr1-bes", "cellsdr1-ustar"}
\* the fixed endpoints the model binds (two of the eight offered), with the
\* default component id
fixed_endpoint_aggregates == {"web", "moran"}
b210_component_id == "nuc2"
x310_pair_nodetype == "d740"

\* variant: the parameter also offers the 15 MHz row of the table
channel_bandwidth_strings_With15 ==
    << <<"1.4", "1.4 MHz">>, <<"3", "3 MHz">>, <<"5", "5 MHz">>, <<"10", "10 MHz">>,
       <<"15", "15 MHz">> >>

\* the (code, label) pairs the channel_bandwidth parameter offers
channel_bandwidth_strings ==
    << <<"1.4", "1.4 MHz">>, <<"3", "3 MHz">>, <<"5", "5 MHz">>, <<"10", "10 MHz">> >>

\* variant: the 15 MHz row repeats the resource-block count of the row above
channel_bandwidths_RepeatedPrb ==
    [c \in {"1.4", "3", "5", "10", "15", "20"} |->
        CASE c = "1.4" -> [n_prb |-> 6,   bandwidth |-> [int |-> FALSE, v |-> 140],  ul_amp |-> 50, dl_gain |-> 20]
          [] c = "3"   -> [n_prb |-> 15,  bandwidth |-> [int |-> TRUE,  v |-> 300],  ul_amp |-> 50, dl_gain |-> 20]
          [] c = "5"   -> [n_prb |-> 25,  bandwidth |-> [int |-> TRUE,  v |-> 500],  ul_amp |-> 50, dl_gain |-> 20]
          [] c = "10"  -> [n_prb |-> 50,  bandwidth |-> [int |-> TRUE,  v |-> 1000], ul_amp |-> 50, dl_gain |-> 20]
          [] c = "15"  -> [n_prb |-> 50,  bandwidth |-> [int |-> TRUE,  v |-> 1500], ul_amp |-> 50, dl_gain |-> 20]
          [] c = "20"  -> [n_prb |-> 100, bandwidth |-> [int |-> TRUE,  v |-> 2000], ul_amp |-> 50, dl_gain |-> 20]]

\* n PRB, width of frequency to allocate, uplink amplitude, downlink gain
channel_bandwidths ==
    [c \in {"1.4", "3", "5", "10", "15", "20"} |->
        CASE c = "1.4" -> [n_prb |-> 6,   bandwidth |-> [int |-> FALSE, v |-> 140],  ul_amp |-> 50, dl_gain |-> 20]
          [] c = "3"   -> [n_prb |-> 15,  bandwidth |-> [int |-> TRUE,  v |-> 300],  ul_amp |-> 50, dl_gain |-> 20]
          [] c = "5"   -> [n_prb |-> 25,  bandwidth |-> [int |-> TRUE,  v |-> 500],  ul_amp |-> 50, dl_gain |-> 20]
          [] c = "10"  -> [n_prb |-> 50,  bandwidth |-> [int |-> TRUE,  v |-> 1000], ul_amp |-> 50, dl_gain |-> 20]
          [] c = "15"  -> [n_prb |-> 75,  bandwidth |-> [int |-> TRUE,  v |-> 1500], ul_amp |-> 50, dl_gain |-> 20]
          [] c = "20"  -> [n_prb |-> 100, bandwidth |-> [int |-> TRUE,  v |-> 2000], ul_amp |-> 50, dl_gain |-> 20]]

(***************************************************************************)
(* Inputs.                                                                 *)
(***************************************************************************)
\* the strings the portal may hand over as params.channel_bandwidth: every
\* key of the table and one string that is no key
Selectors == DOMAIN channel_bandwidths \cup {"2.5"}

\* the values tried for the downlink frequency: the script's own 2685.0 MHz,
\* 2619.99 MHz, and a grid of 0.05 MHz steps around both band edges
Frequencies ==
    {268500, 261999}
      \cup {262000 + 5 * d : d \in (0 - EdgeSpan)..EdgeSpan}
      \cup {269000 + 5 * d : d \in (0 - EdgeSpan)..EdgeSpan}

SeqsUpTo(S, n) == UNION {[1..m -> S] : m \in 0..n}

B210Nodes == [aggregate_id : fixed_endpoint_aggregates, component_id : {b210_component_id}]

(***************************************************************************)
(* Python arithmetic and formatting.                                       *)
(***************************************************************************)
\* int(round(x)) of the positive number x = h/10 (h in tenths): Python 2
\* rounds a tie away from zero, Python 3 to the even neighbour
PyRound(h, ver) ==
    LET q == h \div 10
        r == h % 10
    IN  IF r < 5 THEN q
        ELSE IF r > 5 THEN q + 1
        ELSE IF ver = 2 THEN q + 1
        ELSE IF q % 2 = 0 THEN q ELSE q + 1

\* b/2 for the Python number b: floor division when b is an int under
\* Python 2, the exact half otherwise; the result in hundredths
PyHalf(b, ver) ==
    IF b.int /\ ver = 2 THEN ((b.v \div 100) \div 2) * 100 ELSE b.v \div 2

\* str() of a non-negative float held in hundredths with at most two decimals
FormatFloat(h) ==
    ToString(h \div 100) \o "." \o
        (IF h % 10 = 0 THEN ToString((h % 100) \div 10)
         ELSE ToString((h % 100) \div 10) \o ToString(h % 10))

\* " ".join(words)
RECURSIVE Join(_)
Join(words) ==
    IF Len(words) = 0 THEN ""
    ELSE IF Len(words) = 1 THEN words[1]
    ELSE words[1] \o " " \o Join(Tail(words))

(***************************************************************************)
(* The radio configuration arithmetic.                                     *)
(***************************************************************************)
\* centi_khz = int(round(downlink_frequency * 10))
CentiKhz(f, ver) == PyRound(f, ver)

\* the two conditions of the band 7 check
TooLowFrequency(c) == c < 26200
\* variant: the upper edge is off by one
TooHighFrequency_OffByOne(c) == c > 26900
TooHighFrequency(c) == c > 26899

\* variant: the EARFCN origin of the band is left out
Earfcn_NoOrigin(c) == c - 26200
Earfcn(c) == c - 26200 + 2750

\* the lower and upper edge of the window of width b centred on f
LowEdge(f, b, ver) == f - PyHalf(b, ver)
HighEdge(f, b, ver) == f + PyHalf(b, ver)

\* variant: the duplex spacing is added instead of subtracted
DuplexShift_Upwards(edge) == edge + 12000
\* " - 120": the uplink edge that belongs to a downlink edge
DuplexShift(edge) == edge - 12000

\* variant: n_prb and earfcn change places in the token
ChannelSetupToken_Swapped(prb, chan, amp, gain) ==
    "channel_setup-" \o ToString(chan) \o "-" \o ToString(prb) \o "-"
        \o FormatFloat(amp) \o "-" \o FormatFloat(gain)
\* channel_setup_format_string.format(...)
ChannelSetupToken(prb, chan, amp, gain) ==
    "channel_setup-" \o ToString(prb) \o "-" \o ToString(chan) \o "-"
        \o FormatFloat(amp) \o "-" \o FormatFloat(gain)

(***************************************************************************)
(* The request document.                                                   *)
(***************************************************************************)
EmptyRequest == [spectrum |-> << >>, resources |-> << >>]

\* variant: the reservation is put in front of the earlier ones
RequestSpectrum_Prepend(req, low, high, power) ==
    [req EXCEPT !.spectrum = << <<low, high, power>> >> \o @]
\* request.requestSpectrum(low, high, power)
RequestSpectrum(req, low, high, power) ==
    [req EXCEPT !.spectrum = Append(@, <<low, high, power>>)]

\* " ".join([setup_command] + installs)
ServiceCommand(inst) == Join(<<setup_command>> \o inst)

\* variant: links are numbered from 1
RadioLinkName_FromOne(idx) == "radio-link-" \o ToString(idx + 1)
\* "radio-link-%d" % (idx)
RadioLinkName(idx) == "radio-link-" \o ToString(idx)

RawPC(name) ==
    [kind |-> "node", name |-> name, hardware_type |-> "", disk_image |-> "",
     component_manager_id |-> "", component_id |-> "", services |-> << >>,
     interfaces |-> << >>]

\* x310_node_pair(idx, x310_radio, node_type, installs): the resources it adds
\* to the request, in the order it creates them
X310NodePair(idx, radio_name, node_type, inst) ==
    LET radio_link == [kind |-> "link",
                       name |-> RadioLinkName(idx),
                       bandwidth |-> 10 * 1000 * 1000,
                       interfaces |-> << <<radio_name \o "-comp", "usrp_if">> >>,
                       nodes |-> << radio_name \o "-x310" >>]
        node == [RawPC(radio_name \o "-comp") EXCEPT
                   !.hardware_type = node_type,
                   !.disk_image = x310_node_disk_image,
                   !.component_manager_id = "urn:publicid:IDN+emulab.net+authority+cm",
                   !.services = << ServiceCommand(inst) >>,
                   !.interfaces = << <<"usrp_if", "192.168.40.1", "255.255.255.0">> >>]
        radio == [RawPC(radio_name \o "-x310") EXCEPT !.component_id = radio_name]
    IN  << radio_link, node, radio >>

\* b210_nuc_pair(idx, b210_node, installs): the resource it adds
B210NucPair(idx, b210_node, inst) ==
    << [RawPC("b210-" \o b210_node.aggregate_id \o "-" \o b210_node.component_id) EXCEPT
          !.component_manager_id =
              "urn:publicid:IDN+" \o b210_node.aggregate_id \o ".powderwireless.net+authority+cm",
          !.component_id = b210_node.component_id,
          !.disk_image = b210_node_disk_image,
          !.services = << ServiceCommand(inst) >>] >>

(***************************************************************************)
(* The script.                                                             *)
(***************************************************************************)
Init ==
    /\ pc = "define"
    /\ py \in {2, 3}
    /\ error = "none"
    /\ parameters = [defaultValue |-> "", legalValues |-> {}]
    /\ params = [channel_bandwidth |-> "", x310_radios |-> << >>,
                 b210_nodes |-> << >>, x310_pair_nodetype |-> ""]
    /\ request = EmptyRequest
    /\ installs = << >>
    /\ downlink_frequency = 0
    /\ centi_khz = 0
    /\ earfcn = 0
    /\ n_prb = 0
    /\ bandwidth = [int |-> TRUE, v |-> 0]
    /\ ul_amp = 0
    /\ dl_gain = 0
    /\ low_downlink_frequency = 0
    /\ high_downlink_frequency = 0
    /\ low_uplink_frequency = 0
    /\ high_uplink_frequency = 0
    /\ i = 0
    /\ j = 0
    /\ printed = 0

\* variant: the error is noted and the script goes on with its next statement
Raise_Swallowed(msg) ==
    /\ error' = msg
    /\ pc' = (IF pc = "check" THEN "lookup" ELSE "windows")
\* raise Exception(msg): the run ends, nothing else changes
Raise(msg) == pc' = "failed" /\ error' = msg

\* defineParameter("channel_bandwidth", ...): the default is the third pair
\* and the legal values are the codes of the pairs
DefineParameters ==
    /\ pc = "define"
    /\ parameters' =
          [defaultValue |-> channel_bandwidth_strings[3][1],
           legalValues |-> {channel_bandwidth_strings[k][1] :
                               k \in 1..Len(channel_bandwidth_strings)}]
    /\ pc' = "bind"
    /\ UNCHANGED <<py, error, params, request, installs, downlink_frequency,
                   centi_khz, earfcn, n_prb, bandwidth, ul_amp, dl_gain,
                   low_downlink_frequency, high_downlink_frequency,
                   low_uplink_frequency, high_uplink_frequency, i, j, printed>>

\* params = portal.context.bindParameters()
BindParameters ==
    /\ pc = "bind"
    /\ \E cb \in Selectors,
          xs \in SeqsUpTo(rooftop_names, MaxRadios),
          bs \in SeqsUpTo(B210Nodes, MaxNodes) :
          params' = [channel_bandwidth |-> cb, x310_radios |-> xs,
                     b210_nodes |-> bs, x310_pair_nodetype |-> x310_pair_nodetype]
    /\ pc' = "make"
    /\ UNCHANGED <<py, error, parameters, request, installs, downlink_frequency,
                   centi_khz, earfcn, n_prb, bandwidth, ul_amp, dl_gain,
                   low_downlink_frequency, high_downlink_frequency,
                   low_uplink_frequency, high_uplink_frequency, i, j, printed>>

\* request = portal.context.makeRequestRSpec()
MakeRequestRSpec ==
    /\ pc = "make"
    /\ request' = EmptyRequest
    /\ pc' = "installs"
    /\ UNCHANGED <<py, error, parameters, params, installs, downlink_frequency,
                   centi_khz, earfcn, n_prb, bandwidth, ul_amp, dl_gain,
                   low_downlink_frequency, high_downlink_frequency,
                   low_uplink_frequency, high_uplink_frequency, i, j, printed>>

\* installs = []; installs.append("srslte"); installs.append("gnuradio")
InitInstalls ==
    /\ pc = "installs"
    /\ installs' = Append(Append(<< >>, "srslte"), "gnuradio")
    /\ pc' = "freq"
    /\ UNCHANGED <<py, error, parameters, params, request, downlink_frequency,
                   centi_khz, earfcn, n_prb, bandwidth, ul_amp, dl_gain,
                   low_downlink_frequency, high_downlink_frequency,
                   low_uplink_frequency, high_uplink_frequency, i, j, printed>>

\* downlink_frequency = ...; centi_khz = int(round(downlink_frequency * 10))
SetDownlinkFrequency ==
    /\ pc = "freq"
    /\ \E f \in Frequencies :
          /\ downlink_frequency' = f
          /\ centi_khz' = CentiKhz(f, py)
    /\ pc' = "check"
    /\ UNCHANGED <<py, error, parameters, params, request, installs,
                   earfcn, n_prb, bandwidth, ul_amp, dl_gain,
                   low_downlink_frequency, high_downlink_frequency,
                   low_uplink_frequency, high_uplink_frequency, i, j, printed>>

\* if centi_khz < 26200: raise
BandCheckTooLow ==
    /\ pc = "check"
    /\ TooLowFrequency(centi_khz)
    /\ Raise("Too low of a downlink frequency for band 7")
    /\ UNCHANGED <<py, parameters, params, request, installs, downlink_frequency,
                   centi_khz, earfcn, n_prb, bandwidth, ul_amp, dl_gain,
                   low_downlink_frequency, high_downlink_frequency,
                   low_uplink_frequency, high_uplink_frequency, i, j, printed>>

\* if centi_khz > 26899: raise
BandCheckTooHigh ==
    /\ pc = "check"
    /\ ~TooLowFrequency(centi_khz)
    /\ TooHighFrequency(centi_khz)
    /\ Raise("Too high of a downlink frequency for band 7")
    /\ UNCHANGED <<py, parameters, params, request, installs, downlink_frequency,
                   centi_khz, earfcn, n_prb, bandwidth, ul_amp, dl_gain,
                   low_downlink_frequency, high_downlink_frequency,
                   low_uplink_frequency, high_uplink_frequency, i, j, printed>>

\* earfcn = centi_khz - 26200 + 2750
ComputeEarfcn ==
    /\ pc = "check"
    /\ ~TooLowFrequency(centi_khz)
    /\ ~TooHighFrequency(centi_khz)
    /\ earfcn' = Earfcn(centi_khz)
    /\ pc' = "lookup"
    /\ UNCHANGED <<py, error, parameters, params, request, installs,
                   downlink_frequency, centi_khz, n_prb, bandwidth, ul_amp, dl_gain,
                   low_downlink_frequency, high_downlink_frequency,
                   low_uplink_frequency, high_uplink_frequency, i, j, printed>>

\* channel_bandwidths[channel_bandwidth_str] with a string that is no key:
\* KeyError
LookupUnknownCode ==
    /\ pc = "lookup"
    /\ params.channel_bandwidth \notin DOMAIN channel_bandwidths
    /\ Raise("KeyError")
    /\ UNCHANGED <<py, parameters, params, request, installs, downlink_frequency,
                   centi_khz, earfcn, n_prb, bandwidth, ul_amp, dl_gain,
                   low_downlink_frequency, high_downlink_frequency,
                   low_uplink_frequency, high_uplink_frequency, i, j, printed>>

\* n_prb, bandwidth, ul_amp, dl_gain = channel_bandwidths[channel_bandwidth_str]
LookupProfile ==
    /\ pc = "lookup"
    /\ params.channel_bandwidth \in DOMAIN channel_bandwidths
    /\ LET profile == channel_bandwidths[params.channel_bandwidth]
       IN  /\ n_prb' = profile.n_prb
           /\ bandwidth' = profile.bandwidth
           /\ ul_amp' = profile.ul_amp
           /\ dl_gain' = profile.dl_gain
    /\ pc' = "windows"
    /\ UNCHANGED <<py, error, parameters, params, request, installs,
                   downlink_frequency, centi_khz, earfcn,
                   low_downlink_frequency, high_downlink_frequency,
                   low_uplink_frequency, high_uplink_frequency, i, j, printed>>

\* the four window edges
ComputeWindows ==
    /\ pc = "windows"
    /\ low_downlink_frequency' = LowEdge(downlink_frequency, bandwidth, py)
    /\ high_downlink_frequency' = HighEdge(downlink_frequency, bandwidth, py)
    /\ low_uplink_frequency' = DuplexShift(LowEdge(downlink_frequency, bandwidth, py))
    /\ high_uplink_frequency' = DuplexShift(HighEdge(downlink_frequency, bandwidth, py))
    /\ pc' = "downlink"
    /\ UNCHANGED <<py, error, parameters, params, request, installs,
                   downlink_frequency, centi_khz, earfcn, n_prb, bandwidth,
                   ul_amp, dl_gain, i, j, printed>>

\* request.requestSpectrum(low_downlink_frequency, high_downlink_frequency, 0)
RequestDownlinkSpectrum ==
    /\ pc = "downlink"
    /\ request' = RequestSpectrum(request, low_downlink_frequency,
                                  high_downlink_frequency, 0)
    /\ pc' = "uplink"
    /\ UNCHANGED <<py, error, parameters, params, installs, downlink_frequency,
                   centi_khz, earfcn, n_prb, bandwidth, ul_amp, dl_gain,
                   low_downlink_frequency, high_downlink_frequency,
                   low_uplink_frequency, high_uplink_frequency, i, j, printed>>

\* request.requestSpectrum(low_uplink_frequency, high_uplink_frequency, 0)
RequestUplinkSpectrum ==
    /\ pc = "uplink"
    /\ request' = RequestSpectrum(request, low_uplink_frequency,
                                  high_uplink_frequency, 0)
    /\ pc' = "token"
    /\ UNCHANGED <<py, error, parameters, params, installs, downlink_frequency,
                   centi_khz, earfcn, n_prb, bandwidth, ul_amp, dl_gain,
                   low_downlink_frequency, high_downlink_frequency,
                   low_uplink_frequency, high_uplink_frequency, i, j, printed>>

\* installs.append(channel_setup_format_string.format(...))
AppendChannelSetup ==
    /\ pc = "token"
    /\ installs' = Append(installs, ChannelSetupToken(n_prb, earfcn, ul_amp, dl_gain))
    /\ pc' = "nodes"
    /\ i' = 0
    /\ j' = 0
    /\ UNCHANGED <<py, error, parameters, params, request, downlink_frequency,
                   centi_khz, earfcn, n_prb, bandwidth, ul_amp, dl_gain,
                   low_downlink_frequency, high_downlink_frequency,
                   low_uplink_frequency, high_uplink_frequency, printed>>

\* one turn of: for i, x310_radio in enumerate(params.x310_radios)
BuildX310NodePair ==
    /\ pc = "nodes"
    /\ i < Len(params.x310_radios)
    /\ request' = [request EXCEPT !.resources =
                      @ \o X310NodePair(i, params.x310_radios[i + 1],
                                        params.x310_pair_nodetype, installs)]
    /\ i' = i + 1
    /\ UNCHANGED <<pc, py, error, parameters, params, installs, downlink_frequency,
                   centi_khz, earfcn, n_prb, bandwidth, ul_amp, dl_gain,
                   low_downlink_frequency, high_downlink_frequency,
                   low_uplink_frequency, high_uplink_frequency, j, printed>>

\* one turn of: for i, b210_node in enumerate(params.b210_nodes)
BuildB210NucPair ==
    /\ pc = "nodes"
    /\ i = Len(params.x310_radios)
    /\ j < Len(params.b210_nodes)
    /\ request' = [request EXCEPT !.resources =
                      @ \o B210NucPair(j, params.b210_nodes[j + 1], installs)]
    /\ j' = j + 1
    /\ UNCHANGED <<pc, py, error, parameters, params, installs, downlink_frequency,
                   centi_khz, earfcn, n_prb, bandwidth, ul_amp, dl_gain,
                   low_downlink_frequency, high_downlink_frequency,
                   low_uplink_frequency, high_uplink_frequency, i, printed>>

\* portal.context.printRequestRSpec()
PrintRequestRSpec ==
    /\ pc = "nodes"
    /\ i = Len(params.x310_radios)
    /\ j = Len(params.b210_nodes)
    /\ printed' = printed + 1
    /\ pc' = "done"
    /\ UNCHANGED <<py, error, parameters, params, request, installs,
                   downlink_frequency, centi_khz, earfcn, n_prb, bandwidth,
                   ul_amp, dl_gain, low_downlink_frequency, high_downlink_frequency,
                   low_uplink_frequency, high_uplink_frequency, i, j>>

Next ==
    \/ DefineParameters
    \/ BindParameters
    \/ MakeRequestRSpec
    \/ InitInstalls
    \/ SetDownlinkFrequency
    \/ BandCheckTooLow
    \/ BandCheckTooHigh
    \/ ComputeEarfcn
    \/ LookupUnknownCode
    \/ LookupProfile
    \/ ComputeWindows
    \/ RequestDownlinkSpectrum
    \/ RequestUplinkSpectrum
    \/ AppendChannelSetup
    \/ BuildX310NodePair
    \/ BuildB210NucPair
    \/ PrintRequestRSpec

Spec == Init /\ [][Next]_vars

(***************************************************************************)
(* Properties.                                                             *)
(***************************************************************************)
\* positions of the script at which the band check has been passed
PastBandCheck == pc \in {"lookup", "windows", "downlink", "uplink", "token", "nodes", "done"}
\* positions at which the four window edges have been computed
PastWindows == pc \in {"downlink", "uplink", "token", "nodes", "done"}
\* positions at which both windows have been registered
PastSpectrum == pc \in {"token", "nodes", "done"}

BandErrors == {"Too low of a downlink frequency for band 7",
               "Too high of a downlink frequency for band 7"}

TableCodes == {"1.4", "3", "5", "10", "15", "20"}

\* C1: for every bandwidth code of the table and every accepted downlink
\* frequency, the uplink window, as computed and as registered with the
\* request, is the downlink window shifted down by exactly 120 MHz.
C1_UplinkIs120BelowDownlink ==
    /\ PastWindows =>
          /\ low_uplink_frequency = low_downlink_frequency - 12000
          /\ high_uplink_frequency = high_downlink_frequency - 12000
    /\ PastSpectrum =>
          /\ Len(request.spectrum) = 2
          /\ request.spectrum[2][1] = request.spectrum[1][1] - 12000
          /\ request.spectrum[2][2] = request.spectrum[1][2] - 12000

\* a run with code "1.4" at 2685.0 MHz has registered [2684.3, 2685.7] and
\* [2564.3, 2565.7]
C1_Witness ==
    /\ pc = "done"
    /\ params.channel_bandwidth = "1.4"
    /\ request.spectrum = << <<268430, 268570, 0>>, <<256430, 256570, 0>> >>

\* C2: for every bandwidth code of the table the downlink window is centred on
\* the downlink frequency and as wide as the profile's bandwidth (the exact
\* half on each side, also for the widths 3, 5 and 15); code "5" at 2685.0 MHz
\* gives [2682.5, 2687.5].
C2_DownlinkWindowHasProfileWidth ==
    PastWindows =>
        LET width == channel_bandwidths[params.channel_bandwidth].bandwidth.v
        IN  /\ 2 * (downlink_frequency - low_downlink_frequency) = width
            /\ 2 * (high_downlink_frequency - downlink_frequency) = width
            /\ high_downlink_frequency - low_downlink_frequency = width
            /\ (params.channel_bandwidth = "5" /\ downlink_frequency = 268500) =>
                  /\ low_downlink_frequency = 268250
                  /\ high_downlink_frequency = 268750

\* C3: the band check accepts the downlink frequency exactly when
\* 26200 <= centi_khz <= 26899 and otherwise ends the run with an error;
\* 2619.9 MHz is 26199 and 2690.0 MHz is 26900, both rejected; 2620.0 MHz is
\* 26200 and 2689.9 MHz is 26899, both accepted.
C3_BandCheckAcceptsExactlyTheBand ==
    /\ (pc = "check" \/ pc = "failed" \/ PastBandCheck) =>
          /\ downlink_frequency = 261990 => centi_khz = 26199
          /\ downlink_frequency = 262000 => centi_khz = 26200
          /\ downlink_frequency = 268990 => centi_khz = 26899
          /\ downlink_frequency = 269000 => centi_khz = 26900
    /\ PastBandCheck => (26200 <= centi_khz /\ centi_khz <= 26899 /\ error \notin BandErrors)
    /\ pc = "failed" =>
          /\ error \in BandErrors <=> (centi_khz < 26200 \/ centi_khz > 26899)
          /\ centi_khz < 26200 <=> error = "Too low of a downlink frequency for band 7"
          /\ centi_khz > 26899 <=> error = "Too high of a downlink frequency for band 7"
    /\ error \in BandErrors => pc = "failed"

\* 2690.0 MHz has been rejected as too high
C3_Witness ==
    /\ pc = "failed"
    /\ downlink_frequency = 269000
    /\ centi_khz = 26900
    /\ error = "Too high of a downlink frequency for band 7"

\* C4: for every accepted downlink frequency earfcn = centi_khz - 26200 + 2750,
\* which lies in 2750..3449; 2685.0 MHz gives centi_khz 26850 and earfcn 3400,
\* 2620.0 MHz gives 2750 and 2689.9 MHz gives 3449.
C4_EarfcnOfAcceptedFrequency ==
    PastBandCheck =>
        /\ earfcn = centi_khz - 26200 + 2750
        /\ 2750 <= earfcn /\ earfcn <= 3449
        /\ downlink_frequency = 268500 => (centi_khz = 26850 /\ earfcn = 3400)
        /\ downlink_frequency = 262000 => earfcn = 2750
        /\ downlink_frequency = 268990 => earfcn = 3449

\* a run at 2685.0 MHz has ended with earfcn 3400
C4_Witness ==
    /\ pc = "done"
    /\ downlink_frequency = 268500
    /\ centi_khz = 26850
    /\ earfcn = 3400

\* C5: a run that fails, by the band check or by the profile lookup, has
\* stopped for good with no spectrum reservation, no node and no link in the
\* request, and the request is never printed.
C5_FailureLeavesNothingAllocated ==
    /\ error # "none" =>
          /\ pc = "failed"
          /\ request.spectrum = << >>
          /\ request.resources = << >>
          /\ printed = 0
    /\ pc = "failed" => error \in BandErrors \cup {"KeyError"}

\* the lookup of a code that is no key has failed, after the install list was
\* started and before anything was requested
C5_Witness ==
    /\ pc = "failed"
    /\ error = "KeyError"
    /\ params.channel_bandwidth = "2.5"
    /\ installs = <<"srslte", "gnuradio">>
    /\ request = EmptyRequest

\* the resource-block count the profile table is to give for a code
ExpectedPrb(code) ==
    CASE code = "1.4" -> 6
      [] code = "3"   -> 15
      [] code = "5"   -> 25
      [] code = "10"  -> 50
      [] code = "15"  -> 75
      [] code = "20"  -> 100

\* what the lookup does with the selector: every table code resolves to its
\* profile and a selector that is no table code ends the run with KeyError
LookupResolvesOrFails ==
    /\ PastWindows \/ pc = "windows" =>
          /\ params.channel_bandwidth \in TableCodes
          /\ n_prb = ExpectedPrb(params.channel_bandwidth)
    /\ error = "KeyError" <=> (pc = "failed" /\ error \notin BandErrors)
    /\ error = "KeyError" => params.channel_bandwidth \notin TableCodes
    /\ (pc = "failed" /\ params.channel_bandwidth \in TableCodes) => error \in BandErrors
    /\ (params.channel_bandwidth = "5" /\ PastWindows) => n_prb = 25

\* C6 as stated: the channel-bandwidth selector is declared over the six codes
\* 1.4, 3, 5, 10, 15, 20, each of which resolves to its profile, and a selector
\* that is no table code makes the lookup fail.
C6_SelectorRangesOverSixCodes ==
    /\ pc # "define" => parameters.legalValues = TableCodes
    /\ LookupResolvesOrFails

\* C6, amended: the channel-bandwidth selector is declared over the four codes
\* 1.4, 3, 5, 10 with default 5; the profile table has the six codes 1.4, 3, 5,
\* 10, 15, 20, each of which resolves to its profile (6, 15, 25, 50, 75, 100
\* resource blocks) when it is handed to the lookup, and a selector that is no
\* table code makes the lookup fail.
C6_SelectorDeclaredOverFourCodes ==
    /\ pc # "define" =>
          /\ parameters.legalValues = {"1.4", "3", "5", "10"}
          /\ parameters.defaultValue = "5"
    /\ DOMAIN channel_bandwidths = TableCodes
    /\ LookupResolvesOrFails

\* code "15", which the parameter does not offer, has been looked up and has
\* resolved to 75 resource blocks
C6_Witness ==
    /\ pc = "windows"
    /\ params.channel_bandwidth = "15"
    /\ params.channel_bandwidth \notin parameters.legalValues
    /\ n_prb = 75

\* C7: a successful run has appended exactly one token
\* channel_setup-{n_prb}-{earfcn}-{ul_amp}-{dl_gain} to the install list, built
\* from the selected profile and the computed earfcn (channel_setup-25-3400-...
\* for code "5" at 2685.0 MHz), after "srslte" and "gnuradio" and before any
\* node is constructed.
C7_OneChannelSetupToken ==
    /\ pc \in {"freq", "check", "lookup", "windows", "downlink", "uplink", "token"} =>
          /\ installs = <<"srslte", "gnuradio">>
          /\ request.resources = << >>
    /\ pc \in {"nodes", "done"} =>
          /\ Len(installs) = 3
          /\ installs[1] = "srslte"
          /\ installs[2] = "gnuradio"
          /\ installs[3] = "channel_setup-" \o ToString(ExpectedPrb(params.channel_bandwidth))
                              \o "-" \o ToString(centi_khz - 26200 + 2750) \o "-0.5-0.2"
          /\ (params.channel_bandwidth = "5" /\ downlink_frequency = 268500) =>
                installs[3] = "channel_setup-25-3400-0.5-0.2"
    /\ request.resources # << >> => Len(installs) = 3

\* the default run has ended with its token in the install list and nodes in
\* the request
C7_Witness ==
    /\ pc = "done"
    /\ installs = <<"srslte", "gnuradio", "channel_setup-25-3400-0.5-0.2">>
    /\ Len(request.resources) > 0

\* the resources of the request that satisfy P
Count(res, P(_)) == Cardinality({k \in 1..Len(res) : P(res[k])})

\* C8: a successful run registers exactly two spectrum reservations, the
\* downlink window first and the uplink window second, both after the band
\* check and the profile lookup have passed and before any node or link is
\* added; the request is printed exactly once, after all nodes and links have
\* been added.
C8_SpectrumThenNodesThenPrint ==
    /\ [](/\ pc \notin {"uplink", "token", "nodes", "done"} => request.spectrum = << >>
          /\ pc = "uplink" => Len(request.spectrum) = 1
          /\ pc \in {"token", "nodes", "done"} => Len(request.spectrum) = 2
          /\ Len(request.spectrum) >= 1 =>
                /\ request.spectrum[1][1] + request.spectrum[1][2] = 2 * downlink_frequency
                /\ request.spectrum[1][1] <= request.spectrum[1][2]
                /\ request.spectrum[1][3] = 0
                /\ error = "none"
                /\ 26200 <= centi_khz /\ centi_khz <= 26899
                /\ params.channel_bandwidth \in TableCodes
          /\ Len(request.spectrum) >= 2 =>
                /\ request.spectrum[2][1] + request.spectrum[2][2] = 2 * (downlink_frequency - 12000)
                /\ request.spectrum[2][1] < request.spectrum[1][1]
                /\ request.spectrum[2][3] = 0
          /\ Len(request.spectrum) < 2 => request.resources = << >>
          /\ printed = (IF pc = "done" THEN 1 ELSE 0)
          /\ pc = "done" =>
                Len(request.resources) =
                    3 * Len(params.x310_radios) + Len(params.b210_nodes))
    /\ [][printed' # printed =>
             /\ request' = request
             /\ Len(request.resources) =
                    3 * Len(params.x310_radios) + Len(params.b210_nodes)]_vars
    /\ [][printed > 0 => UNCHANGED <<request, printed>>]_vars

\* a run with two X310 radios and two B210 nodes has printed its request, which
\* holds both reservations and the eight resources
C8_Witness ==
    /\ pc = "done"
    /\ printed = 1
    /\ Len(request.spectrum) = 2
    /\ Len(params.x310_radios) = 2
    /\ Len(params.b210_nodes) = 2
    /\ Len(request.resources) = 8

IsLink(r) == r.kind = "link"
IsNode(r) == r.kind = "node"
IsComputeNode(r) == r.kind = "node" /\ r.hardware_type = "d740"
IsRadioNode(r) == r.kind = "node" /\ r.component_id \in {"cellsdr1-bes", "cellsdr1-ustar"}
IsB210Node(r) == r.kind = "node" /\ r.component_id = "nuc2"
HasService(r) == r.kind = "node" /\ r.services # << >>

\* C9: for a list of m X310 radios and a list of k B210 nodes the printed
\* request holds exactly m links, named radio-link-0 .. radio-link-(m-1) and
\* pairwise distinct, 2*m X310-side nodes (a compute node and a radio node per
\* radio) and k B210 nodes; building nodes never changes the install list, and
\* every compute node and every B210 node carries the one service command: the
\* setup script, srslte, gnuradio and the channel_setup token, in that order.
C9_RequestHoldsTheDeclaredTopology ==
    /\ [](pc = "done" =>
            LET res == request.resources
                m == Len(params.x310_radios)
                k == Len(params.b210_nodes)
                links == {x \in 1..Len(res) : IsLink(res[x])}
            IN  /\ Count(res, IsLink) = m
                /\ {res[x].name : x \in links} = {"radio-link-" \o ToString(n) : n \in 0..(m - 1)}
                /\ \A x, y \in links : res[x].name = res[y].name => x = y
                /\ Count(res, IsNode) = 2 * m + k
                /\ Count(res, IsComputeNode) = m
                /\ Count(res, IsRadioNode) = m
                /\ Count(res, IsB210Node) = k
                /\ Count(res, HasService) = m + k
                /\ \A x \in 1..Len(res) :
                      (IsComputeNode(res[x]) \/ IsB210Node(res[x])) =>
                          res[x].services =
                              << "/local/repository/startup.sh srslte gnuradio " \o installs[3] >>
                /\ Len(installs) = 3)
    /\ [][pc = "nodes" => installs' = installs]_vars

\* a run with two X310 radios and two B210 nodes has printed a request with
\* the links radio-link-0 and radio-link-1
C9_Witness ==
    /\ pc = "done"
    /\ Len(params.x310_radios) = 2
    /\ Len(params.b210_nodes) = 2
    /\ Count(request.resources, IsLink) = 2
    /\ request.resources[1].name = "radio-link-0"
    /\ request.resources[4].name = "radio-link-1"

\* the window [low, high] lies inside [from, to]
Inside(low, high, from, to) == from <= low /\ high <= to

\* C10: at the downlink frequency 2685.0 MHz, for every channel bandwidth the
\* parameter offers (1.4, 3, 5, 10) the requested downlink window lies inside
\* 2680..2690 MHz and the requested uplink window inside 2560..2570 MHz; the
\* table entries 15 and 20, which the parameter does not offer, are the only
\* profiles whose windows leave those ranges.
C10_OfferedWindowsInsideUsableRanges ==
    (PastSpectrum /\ downlink_frequency = 268500) =>
        LET dl == request.spectrum[1]
            ul == request.spectrum[2]
            code == params.channel_bandwidth
        IN  /\ code \in parameters.legalValues =>
                  /\ Inside(dl[1], dl[2], 268000, 269000)
                  /\ Inside(ul[1], ul[2], 256000, 257000)
            /\ code \in {"15", "20"} =>
                  /\ ~Inside(dl[1], dl[2], 268000, 269000)
                  /\ ~Inside(ul[1], ul[2], 256000, 257000)
            /\ code \in parameters.legalValues <=> code \notin {"15", "20"}
            /\ parameters.legalValues = {"1.4", "3", "5", "10"}

\* the widest offered bandwidth, 10 MHz, has been requested at 2685.0 MHz and
\* fills both usable ranges exactly
C10_Witness ==
    /\ pc = "done"
    /\ downlink_frequency = 268500
    /\ params.channel_bandwidth = "10"
    /\ request.spectrum = << <<268000, 269000, 0>>, <<256000, 257000, 0>> >>

====
